---- MODULE Spec2Model ----
(***************************************************************************)
(* CScriptEngine: callback registry with deferred deletion, the execution  *)
(* bracket (StartScriptExecution / StopScriptExecution) shared with the    *)
(* script watcher thread, the periodic registries and the passes of        *)
(* RunScripts over them, the action builder, the compile cache, and the    *)
(* engine lifecycle around them.                                           *)
(***************************************************************************)
EXTENDS Integers, Sequences, FiniteSets, TLC

\* ------------------------------------------------------------------ bounds
NumUnits == 2       \* IScriptFunction objects the environment can hand out
MaxCalls == 2       \* bracketed invocations in one run
MaxRefs == 2        \* reference count of a cached unit
MaxArgc == 1        \* arguments passed to CreateAction after the name

\* ------------------------------------------------- watchdog timing (ticks)
Timeout == 1
PollInterval == 1
\* elapsed times are told apart up to here
AgeCap == Timeout + PollInterval + 1
Inc(a) == IF a < AgeCap THEN a + 1 ELSE a

NULL == 0
Units == 1..NumUnits
Names == {"onCreated", "onTimeout"}
Sources == {"good", "bad"}
ArgCounts == 0..MaxArgc
Npcs == {"npc1", "npc2"}
Weapons == {"weapon1"}
CompilesOk(code) == code = "good"

VARIABLES
    callbacks,              \* _callbacks: event name -> unit
    deletedFunctions,       \* _deletedFunctions
    cachedScripts,          \* _cachedScripts: source text -> unit
    refCount,               \* reference count of each unit
    unitState,              \* "free" (not yet created), "alive", "destroyed"
    env,                    \* _env: "null", "alive", "destroyed"
    scriptIsRunning,        \* _scriptIsRunning
    scriptStartAge,         \* _scriptStartTime, as the time elapsed since it (now - _scriptStartTime)
    startCall,              \* the call whose StartScriptExecution wrote _scriptStartTime
    runCall,                \* the call whose StartScriptExecution stored true in _scriptIsRunning
    lockHolder,             \* _scriptWatcherLock: "none", "worker", "watcher"
    scriptWatcherRunning,   \* _scriptWatcherRunning
    wpc,                    \* worker thread: where it is
    stack,                  \* worker thread: script calls in flight, innermost last
    pend,                   \* worker thread: the invocation being opened or closed
    callSeq,                \* bracketed invocations begun so far
    execResult,             \* what the last ExecuteNpc/ExecuteWeapon returned
    scriptError,            \* ScriptRunError kind
    interruptRequested,     \* the environment was asked to interrupt
    watcherPc,              \* watcher thread: where it is
    obs,                    \* watcher thread: what it last read from the bracket
    sleepLeft,              \* watcher thread: what is left of its sleep
    updateNpcs,             \* _updateNpcs
    updateNpcsTimer,        \* _updateNpcsTimer
    updateWeapons,          \* _updateWeapons
    wanted,                 \* per member touched since the last pass began: whether the last call about it was a Register
    pass,                   \* RunScripts: the pass over the periodic registries in progress
    actions,                \* ScriptAction objects built by CreateAction and not yet run, oldest first
    created                 \* the last CreateAction call that returned: its name, its argument count, what it returned

vars == <<callbacks, deletedFunctions, cachedScripts, refCount, unitState, env,
          scriptIsRunning, scriptStartAge, startCall, runCall, lockHolder,
          scriptWatcherRunning, wpc, stack, pend, callSeq, execResult,
          scriptError, interruptRequested, watcherPc, obs, sleepLeft,
          updateNpcs, updateNpcsTimer, updateWeapons, wanted, pass, actions,
          created>>

registryVars == <<callbacks, deletedFunctions>>
cacheVars == <<cachedScripts, refCount>>
bracketVars == <<scriptIsRunning, scriptStartAge, startCall, runCall, lockHolder>>
workerVars == <<wpc, stack, pend, callSeq, execResult>>
watcherVars == <<watcherPc, obs, sleepLeft>>
periodicVars == <<updateNpcs, updateNpcsTimer, updateWeapons, wanted>>
actionVars == <<actions, created>>
extVars == <<periodicVars, pass, actionVars>>

NoPend == [name |-> "", call |-> 0, age |-> 0, outcome |-> "none"]
NoObs == [running |-> FALSE, age |-> 0, startCall |-> 0, runCall |-> 0]
NoAction == [unit |-> NULL, name |-> ""]
NoPass == [snap |-> {}, want |-> <<>>, todo |-> {}, unreg |-> {}, count |-> <<>>]

Init ==
    /\ callbacks = <<>>
    /\ deletedFunctions = {}
    /\ cachedScripts = <<>>
    /\ refCount = [u \in Units |-> 0]
    /\ unitState = [u \in Units |-> "free"]
    /\ env = "null"
    /\ scriptIsRunning = FALSE
    /\ scriptStartAge = AgeCap
    /\ startCall = 0
    /\ runCall = 0
    /\ lockHolder = "none"
    /\ scriptWatcherRunning = FALSE
    /\ wpc = "idle"
    /\ stack = <<>>
    /\ pend = NoPend
    /\ callSeq = 0
    /\ execResult = "none"
    /\ scriptError = "none"
    /\ interruptRequested = FALSE
    /\ watcherPc = "notstarted"
    /\ obs = NoObs
    /\ sleepLeft = 0
    /\ updateNpcs = {}
    /\ updateNpcsTimer = {}
    /\ updateWeapons = {}
    /\ wanted = <<>>
    /\ pass = NoPass
    /\ actions = <<>>
    /\ created = [asked |-> "", argc |-> 0, action |-> NoAction]

\* ------------------------------------------------------------ pure helpers
Range(f) == {f[k] : k \in DOMAIN f}
MapRemove(f, k) == [x \in DOMAIN f \ {k} |-> f[x]]
MapPut(f, k, v) == [x \in DOMAIN f \cup {k} |-> IF x = k THEN v ELSE f[x]]
StackUnits == {stack[i].unit : i \in 1..Len(stack)}
Top == stack[Len(stack)]
Destroy(S) == [u \in Units |-> IF u \in S THEN "destroyed" ELSE unitState[u]]
Destroyed == {u \in Units : unitState[u] = "destroyed"}

\* getCallBack: the unit registered under the name, or nullptr
getCallBack(cbs, callback) ==
    IF callback \in DOMAIN cbs THEN cbs[callback] ELSE NULL

\* removeCallBack as it would be if it deleted the erased unit on the spot
removeCallBackEager(cbs, del, callback) ==
    IF callback \in DOMAIN cbs
    THEN [callbacks |-> MapRemove(cbs, callback),
          deleted |-> del,
          freed |-> {cbs[callback]}]
    ELSE [callbacks |-> cbs, deleted |-> del, freed |-> {}]

\* removeCallBack as it would be if it queued the unit and deleted it as well
removeCallBackTwice(cbs, del, callback) ==
    IF callback \in DOMAIN cbs
    THEN [callbacks |-> MapRemove(cbs, callback),
          deleted |-> del \cup {cbs[callback]},
          freed |-> {cbs[callback]}]
    ELSE [callbacks |-> cbs, deleted |-> del, freed |-> {}]

\* removeCallBack as it would be if it queued the unit and left the entry
removeCallBackKeeps(cbs, del, callback) ==
    IF callback \in DOMAIN cbs
    THEN [callbacks |-> cbs,
          deleted |-> del \cup {cbs[callback]},
          freed |-> {}]
    ELSE [callbacks |-> cbs, deleted |-> del, freed |-> {}]

\* removeCallBack: the registry and pending-deletion set it leaves, and the
\* units it deletes on the spot (none)
removeCallBack(cbs, del, callback) ==
    IF callback \in DOMAIN cbs
    THEN [callbacks |-> MapRemove(cbs, callback),
          deleted |-> del \cup {cbs[callback]},
          freed |-> {}]
    ELSE [callbacks |-> cbs, deleted |-> del, freed |-> {}]

\* setCallBack as it would be without the removeCallBack before the store
setCallBackOverwrite(cbs, del, callback, cbFunc) ==
    [callbacks |-> MapPut(cbs, callback, cbFunc), deleted |-> del, freed |-> {}]

\* setCallBack: removeCallBack(callback), then _callbacks[callback] = cbFunc
setCallBack(cbs, del, callback, cbFunc) ==
    LET r == removeCallBack(cbs, del, callback)
    IN  [callbacks |-> MapPut(r.callbacks, callback, cbFunc),
         deleted |-> r.deleted,
         freed |-> r.freed]

\* StopScriptExecution as it would be if it only reported the flag
StopScriptExecutionKeeps(running) ==
    [res |-> running, running |-> running]

\* StopScriptExecution as it would be if it stored the opposite of what it read
StopScriptExecutionToggles(running) ==
    [res |-> running, running |-> ~running]

\* StopScriptExecution: the value it returns and the flag it leaves
StopScriptExecution(running) ==
    [res |-> running, running |-> IF running THEN FALSE ELSE running]

\* assert(Argc > 0): what the two builds make of it. With assertions an empty
\* argument pack aborts the process; with NDEBUG the line is empty
AssertArgc(argc) == IF argc > 0 THEN {FALSE} ELSE {TRUE, FALSE}

\* CreateAction as it would be without the test against _callbacks.end()
CreateActionUnchecked(cbs, action, argc) ==
    {[aborts |-> ab,
      action |-> IF ab THEN NoAction
                 ELSE [unit |-> getCallBack(cbs, action), name |-> action]] :
        ab \in AssertArgc(argc)}

\* CreateAction as it would be if it took the unit of the first entry
CreateActionFirst(cbs, action, argc) ==
    {[aborts |-> ab,
      action |-> IF ab \/ action \notin DOMAIN cbs THEN NoAction
                 ELSE [unit |-> cbs[CHOOSE n \in DOMAIN cbs :
                                       n # action \/ DOMAIN cbs = {action}],
                       name |-> action]] :
        ab \in AssertArgc(argc)}

\* CreateAction: the outcomes of a call with argc arguments after the name.
\* Past the assert, nullptr when the name has no entry, otherwise a new
\* ScriptAction holding funcIt->second and the name
CreateAction(cbs, action, argc) ==
    {[aborts |-> ab,
      action |-> IF ab \/ action \notin DOMAIN cbs THEN NoAction
                 ELSE [unit |-> cbs[action], name |-> action]] :
        ab \in AssertArgc(argc)}

\* ------------------------------------------------------ periodic registries
\* the three sets, taken together
Regs == [updateNpcs |-> updateNpcs, updateNpcsTimer |-> updateNpcsTimer,
         updateWeapons |-> updateWeapons]

\* RegisterNpcTimer: _updateNpcsTimer.insert(npc)
RegisterNpcTimer(regs, npc) == [regs EXCEPT !.updateNpcsTimer = @ \cup {npc}]

\* RegisterNpcUpdate as it would be if it inserted into the timer set
RegisterNpcUpdateWrongSet(regs, npc) == [regs EXCEPT !.updateNpcsTimer = @ \cup {npc}]

\* RegisterNpcUpdate: _updateNpcs.insert(npc)
RegisterNpcUpdate(regs, npc) == [regs EXCEPT !.updateNpcs = @ \cup {npc}]

\* RegisterWeaponUpdate: _updateWeapons.insert(weapon)
RegisterWeaponUpdate(regs, weapon) == [regs EXCEPT !.updateWeapons = @ \cup {weapon}]

\* UnregisterWeaponUpdate: _updateWeapons.erase(weapon)
UnregisterWeaponUpdate(regs, weapon) == [regs EXCEPT !.updateWeapons = @ \ {weapon}]

\* UnregisterNpcUpdate as it would be if it erased nothing
UnregisterNpcUpdateKeeps(regs, npc) == regs

\* UnregisterNpcUpdate: _updateNpcs.erase(npc)
UnregisterNpcUpdate(regs, npc) == [regs EXCEPT !.updateNpcs = @ \ {npc}]

\* UnregisterNpcTimer as it would be if it emptied the set
UnregisterNpcTimerAll(regs, npc) == [regs EXCEPT !.updateNpcsTimer = {}]

\* UnregisterNpcTimer: _updateNpcsTimer.erase(npc)
UnregisterNpcTimer(regs, npc) == [regs EXCEPT !.updateNpcsTimer = @ \ {npc}]

\* a registry and one of its entities
Member(reg, ent) == [reg |-> reg, ent |-> ent]
Members(regs) ==
    {Member("updateNpcsTimer", e) : e \in regs.updateNpcsTimer}
    \cup {Member("updateNpcs", e) : e \in regs.updateNpcs}
    \cup {Member("updateWeapons", e) : e \in regs.updateWeapons}

\* the handler RunScripts invokes for a member of each registry
HandlerOf(reg) == IF reg = "updateNpcsTimer" THEN "onTimeout" ELSE "onCreated"

\* a pass of RunScripts over the registries is under way
InPass == pass.snap # {}
Invoked(p) == p \in DOMAIN pass.count /\ pass.count[p] > 0

\* ------------------------------------------------- worker thread: top level
\* The worker is between operations or inside a handler that is still running
AtTop == wpc = "idle" /\ env = "alive"
InHandler == wpc = "in_call" /\ stack # <<>> /\ ~Top.spin
CanCall == env = "alive" /\ (wpc = "idle" \/ InHandler)

\* ------------------------------------------------------- engine lifecycle
\* Initialize: builds the environment and starts the watcher thread
Initialize ==
    /\ env = "null" /\ wpc = "idle"
    /\ env' = "alive"
    /\ scriptWatcherRunning' = TRUE
    /\ watcherPc' = "loop"
    /\ UNCHANGED <<extVars, registryVars, cacheVars, unitState, bracketVars, workerVars,
                   scriptError, interruptRequested, obs, sleepLeft>>

\* Cleanup, first half: tells the watcher thread to stop
CleanupStop ==
    /\ AtTop
    /\ scriptWatcherRunning' = FALSE
    /\ wpc' = "cleanup_join"
    /\ UNCHANGED <<extVars, registryVars, cacheVars, unitState, env, bracketVars, stack,
                   pend, callSeq, execResult, scriptError, interruptRequested,
                   watcherVars>>

\* the join as it would be if Cleanup did not wait for the thread
JoinReturnsAtOnce == TRUE

\* the join of Cleanup returns once the watcher thread has ended
JoinReturns == watcherPc = "exited"

\* Cleanup, second half: joins the watcher, flushes the pending-deletion set,
\* clears the registry and the cache and releases the environment
CleanupJoin ==
    /\ wpc = "cleanup_join"
    /\ JoinReturns
    /\ unitState' = Destroy(deletedFunctions \cup Range(callbacks) \cup Range(cachedScripts))
    /\ deletedFunctions' = {}
    /\ callbacks' = <<>>
    /\ cachedScripts' = <<>>
    /\ refCount' = [u \in Units |-> 0]
    /\ env' = "destroyed"
    /\ wpc' = "done"
    /\ UNCHANGED <<extVars, bracketVars, scriptWatcherRunning, stack, pend, callSeq,
                   execResult, scriptError, interruptRequested, watcherVars>>

\* RunScripts: the safe point at the top of a cycle flushes the pending-deletion
\* set once the bracket is seen closed; the pass over the periodic registries
\* then starts from the membership of this moment (an empty pass ends at once)
RunScripts ==
    /\ AtTop
    /\ ~scriptIsRunning
    /\ unitState' = Destroy(deletedFunctions)
    /\ deletedFunctions' = {}
    /\ LET snap == Members(Regs)
       IN  /\ pass' = IF snap = {} THEN NoPass
                      ELSE [snap |-> snap, want |-> wanted, todo |-> snap,
                            unreg |-> {}, count |-> [p \in snap |-> 0]]
           /\ wpc' = IF snap = {} THEN "idle" ELSE "run_loop"
    /\ wanted' = [p \in {q \in DOMAIN wanted : wanted[q]} |-> TRUE]
    /\ UNCHANGED <<updateNpcs, updateNpcsTimer, updateWeapons, actionVars, callbacks, cacheVars, env, bracketVars,
                   scriptWatcherRunning, stack, pend, callSeq, execResult,
                   scriptError, interruptRequested, watcherVars>>

\* ------------------------------------------------------ callback registry
\* a unit a caller can pass: one that is alive, or the next one the
\* environment creates for the call
FreshUnit == IF \E u \in Units : unitState[u] = "free"
             THEN {CHOOSE u \in Units : unitState[u] = "free" /\ \A v \in Units : unitState[v] = "free" => u <= v}
             ELSE {}
Passable == {u \in Units : unitState[u] = "alive"} \cup FreshUnit

ApplyRegistry(r) ==
    /\ callbacks' = r.callbacks
    /\ deletedFunctions' = r.deleted

DoSetCallBack(callback, cbFunc) ==
    /\ CanCall
    /\ cbFunc \in Passable
    /\ LET r == setCallBack(callbacks, deletedFunctions, callback, cbFunc)
       IN  /\ ApplyRegistry(r)
           /\ unitState' = [Destroy(r.freed) EXCEPT ![cbFunc] =
                               IF cbFunc \in r.freed THEN "destroyed" ELSE "alive"]
    /\ UNCHANGED <<extVars, cacheVars, env, bracketVars, scriptWatcherRunning, workerVars,
                   scriptError, interruptRequested, watcherVars>>

DoRemoveCallBack(callback) ==
    /\ CanCall
    /\ LET r == removeCallBack(callbacks, deletedFunctions, callback)
       IN  /\ ApplyRegistry(r)
           /\ unitState' = Destroy(r.freed)
    /\ UNCHANGED <<extVars, cacheVars, env, bracketVars, scriptWatcherRunning, workerVars,
                   scriptError, interruptRequested, watcherVars>>

\* ---------------------------------------------------------- action builder
\* CreateAction(action, args...): a failed assert ends the process; otherwise
\* the Action, a new object each time, goes to the caller, who runs it when it
\* chooses to
DoCreateAction(action, argc) ==
    /\ CanCall
    /\ \E o \in CreateAction(callbacks, action, argc) :
        IF o.aborts
        THEN /\ wpc' = "aborted"
             /\ UNCHANGED <<actionVars, stack, pend, callSeq, execResult>>
        ELSE /\ created' = [asked |-> action, argc |-> argc, action |-> o.action]
             /\ actions' = IF o.action = NoAction THEN actions
                           ELSE Append(actions, o.action)
             /\ UNCHANGED workerVars
    /\ UNCHANGED <<periodicVars, pass, registryVars, cacheVars, unitState, env,
                   bracketVars, scriptWatcherRunning, scriptError,
                   interruptRequested, watcherVars>>

\* the caller runs the i-th Action it holds and discards it; running a unit
\* that has been destroyed either goes through or brings the process down
RunAction(i) ==
    /\ AtTop
    /\ i \in DOMAIN actions
    /\ actions' = [j \in 1..(Len(actions) - 1) |->
                      IF j < i THEN actions[j] ELSE actions[j + 1]]
    /\ \/ UNCHANGED wpc
       \/ /\ actions[i].unit \in Destroyed
          /\ wpc' = "crashed"
    /\ UNCHANGED <<periodicVars, pass, created, registryVars, cacheVars, unitState,
                   env, bracketVars, scriptWatcherRunning, stack, pend, callSeq,
                   execResult, scriptError, interruptRequested, watcherVars>>

\* ----------------------------------------------------------- compile cache
\* CompileCache as it would be if it never looked the source up in the cache
CompileCacheOutcomeRecompiles(code, referenceCount) ==
    IF ~CompilesOk(code)
    THEN [unit |-> NULL, hit |-> FALSE, compiles |-> TRUE]
    ELSE [unit |-> CHOOSE f \in FreshUnit \cup {NULL} : FreshUnit # {} => f # NULL,
          hit |-> FALSE, compiles |-> TRUE]

\* what a call of CompileCache comes to: the unit it returns (nullptr when the
\* source does not compile), whether that unit came out of the cache, and
\* whether the source was handed to the environment's compiler
CompileCacheOutcome(code, referenceCount) ==
    IF referenceCount /\ code \in DOMAIN cachedScripts
    THEN [unit |-> cachedScripts[code], hit |-> TRUE, compiles |-> FALSE]
    ELSE IF ~CompilesOk(code)
    THEN [unit |-> NULL, hit |-> FALSE, compiles |-> TRUE]
    ELSE [unit |-> CHOOSE f \in FreshUnit \cup {NULL} : FreshUnit # {} => f # NULL,
          hit |-> FALSE, compiles |-> TRUE]

\* CompileCache(code, referenceCount)
CompileCache(code, referenceCount) ==
    /\ AtTop
    /\ LET o == CompileCacheOutcome(code, referenceCount)
       IN  IF o.hit
           THEN /\ refCount[o.unit] < MaxRefs
                /\ refCount' = [refCount EXCEPT ![o.unit] = @ + 1]
                /\ UNCHANGED <<cachedScripts, unitState, scriptError>>
           ELSE IF ~CompilesOk(code)
           THEN /\ scriptError' = "compile"
                /\ UNCHANGED <<cachedScripts, refCount, unitState>>
           ELSE /\ o.unit # NULL
                /\ unitState' = [unitState EXCEPT ![o.unit] = "alive"]
                /\ IF referenceCount
                   THEN /\ cachedScripts' = MapPut(cachedScripts, code, o.unit)
                        /\ refCount' = [refCount EXCEPT ![o.unit] = 1]
                   ELSE UNCHANGED <<cachedScripts, refCount>>
                /\ UNCHANGED scriptError
    /\ UNCHANGED <<extVars, registryVars, env, bracketVars, scriptWatcherRunning, workerVars,
                   interruptRequested, watcherVars>>

\* ClearCache(code): drops the cache's reference; the entry goes when the count
\* reaches zero, and the unit with it unless something else still holds it
ClearCache(code) ==
    /\ AtTop
    /\ IF code \notin DOMAIN cachedScripts
       THEN UNCHANGED <<cachedScripts, refCount, unitState>>
       ELSE LET u == cachedScripts[code]
            IN  /\ refCount' = [refCount EXCEPT ![u] = @ - 1]
                /\ IF refCount[u] = 1
                   THEN /\ cachedScripts' = MapRemove(cachedScripts, code)
                        /\ unitState' = IF u \in Range(callbacks) \cup deletedFunctions
                                        THEN unitState ELSE Destroy({u})
                   ELSE UNCHANGED <<cachedScripts, unitState>>
    /\ UNCHANGED <<extVars, registryVars, env, bracketVars, scriptWatcherRunning, workerVars,
                   scriptError, interruptRequested, watcherVars>>

\* ---------------------------------------------------- bracketed invocation
\* ExecuteNpc / ExecuteWeapon: the caller takes the time and opens the bracket
ExecBegin(name) ==
    /\ CanCall
    /\ callSeq < MaxCalls
    /\ callSeq' = callSeq + 1
    /\ pend' = [name |-> name, call |-> callSeq + 1, age |-> 0, outcome |-> "none"]
    /\ wpc' = "start_lock"
    /\ UNCHANGED <<extVars, registryVars, cacheVars, unitState, env, bracketVars,
                   scriptWatcherRunning, stack, execResult, scriptError,
                   interruptRequested, watcherVars>>

\* StartScriptExecution: lock_guard taken
StartLock ==
    /\ wpc = "start_lock"
    /\ lockHolder = "none"
    /\ lockHolder' = "worker"
    /\ wpc' = "start_write"
    /\ UNCHANGED <<extVars, registryVars, cacheVars, unitState, env, scriptIsRunning,
                   scriptStartAge, startCall, runCall, scriptWatcherRunning, stack,
                   pend, callSeq, execResult, scriptError, interruptRequested,
                   watcherVars>>

\* StartScriptExecution as it would be if the start time were not recorded
StartWriteStale ==
    /\ wpc = "start_write"
    /\ lockHolder' = "none"
    /\ wpc' = "start_store"
    /\ UNCHANGED <<extVars, registryVars, cacheVars, unitState, env, scriptIsRunning,
                   scriptStartAge, startCall, runCall, scriptWatcherRunning,
                   stack, pend, callSeq, execResult, scriptError,
                   interruptRequested, watcherVars>>

\* StartScriptExecution as it would be if the guard lived to the end of the function
StartWriteHoldsLock ==
    /\ wpc = "start_write"
    /\ scriptStartAge' = pend.age
    /\ startCall' = pend.call
    /\ wpc' = "start_store"
    /\ UNCHANGED <<extVars, registryVars, cacheVars, unitState, env, scriptIsRunning,
                   runCall, lockHolder, scriptWatcherRunning, stack, pend,
                   callSeq, execResult, scriptError, interruptRequested,
                   watcherVars>>

\* StartScriptExecution: _scriptStartTime = startTime, end of the guarded block
StartWrite ==
    /\ wpc = "start_write"
    /\ scriptStartAge' = pend.age
    /\ startCall' = pend.call
    /\ lockHolder' = "none"
    /\ wpc' = "start_store"
    /\ UNCHANGED <<extVars, registryVars, cacheVars, unitState, env, scriptIsRunning, runCall,
                   scriptWatcherRunning, stack, pend, callSeq, execResult,
                   scriptError, interruptRequested, watcherVars>>

\* StartScriptExecution: _scriptIsRunning.store(true)
StartStore ==
    /\ wpc = "start_store"
    /\ scriptIsRunning' = TRUE
    /\ runCall' = pend.call
    /\ pend' = [pend EXCEPT !.age = 0]
    /\ wpc' = "lookup"
    /\ UNCHANGED <<extVars, registryVars, cacheVars, unitState, env, scriptStartAge,
                   startCall, lockHolder, scriptWatcherRunning, stack, callSeq,
                   execResult, scriptError, interruptRequested, watcherVars>>

\* the handler is looked up and entered; calling through a pointer to a unit
\* that was destroyed either runs what is left of it or brings the process down
ExecLookup ==
    /\ wpc = "lookup"
    /\ LET u == getCallBack(callbacks, pend.name)
           enter == /\ stack' = Append(stack, [unit |-> u, name |-> pend.name,
                                               call |-> pend.call, age |-> pend.age,
                                               spin |-> FALSE])
                    /\ wpc' = "in_call"
                    /\ UNCHANGED pend
       IN  IF u = NULL
           THEN /\ pend' = [pend EXCEPT !.outcome = "nohandler"]
                /\ wpc' = "stop"
                /\ UNCHANGED stack
           ELSE IF unitState[u] = "alive"
           THEN enter
           ELSE \/ enter
                \/ /\ wpc' = "crashed"
                   /\ UNCHANGED <<stack, pend>>
    /\ UNCHANGED <<extVars, registryVars, cacheVars, unitState, env, bracketVars,
                   scriptWatcherRunning, callSeq, execResult, scriptError,
                   interruptRequested, watcherVars>>

\* the running handler enters a loop it never leaves by itself
HandlerSpin ==
    /\ InHandler
    /\ stack' = [stack EXCEPT ![Len(stack)].spin = TRUE]
    /\ UNCHANGED <<extVars, registryVars, cacheVars, unitState, env, bracketVars,
                   scriptWatcherRunning, wpc, pend, callSeq, execResult,
                   scriptError, interruptRequested, watcherVars>>

\* the running handler returns, with or without an error
HandlerReturn(ok) ==
    /\ InHandler
    /\ pend' = [NoPend EXCEPT !.outcome = IF ok THEN "ok" ELSE "error"]
    /\ scriptError' = IF ok THEN scriptError ELSE "runtime"
    /\ wpc' = "stop"
    /\ UNCHANGED <<extVars, registryVars, cacheVars, unitState, env, bracketVars,
                   scriptWatcherRunning, stack, callSeq, execResult,
                   interruptRequested, watcherVars>>

\* the environment honours a requested interrupt: the running call unwinds
HandlerInterrupted ==
    /\ wpc = "in_call" /\ stack # <<>>
    /\ interruptRequested
    /\ interruptRequested' = FALSE
    /\ pend' = [NoPend EXCEPT !.outcome = "timeout"]
    /\ scriptError' = "timeout"
    /\ wpc' = "stop"
    /\ UNCHANGED <<extVars, registryVars, cacheVars, unitState, env, bracketVars,
                   scriptWatcherRunning, stack, callSeq, execResult,
                   watcherVars>>

\* the bracket is closed and ExecuteNpc / ExecuteWeapon returns
ExecStop ==
    /\ wpc = "stop"
    /\ LET r == StopScriptExecution(scriptIsRunning)
           rest == IF pend.outcome = "nohandler" THEN stack
                   ELSE SubSeq(stack, 1, Len(stack) - 1)
       IN  /\ scriptIsRunning' = r.running
           /\ stack' = rest
           /\ wpc' = IF rest # <<>> THEN "in_call"
                     ELSE IF InPass THEN "run_loop" ELSE "idle"
    /\ execResult' = IF pend.outcome = "ok" THEN "true" ELSE "false"
    /\ pend' = NoPend
    /\ UNCHANGED <<extVars, registryVars, cacheVars, unitState, env, scriptStartAge,
                   startCall, runCall, lockHolder, scriptWatcherRunning, callSeq,
                   scriptError, interruptRequested, watcherVars>>

\* ------------------------------------------ RunScripts: the periodic pass
\* the next member of the snapshot is taken; one that is still registered has
\* its handler invoked through ExecuteNpc / ExecuteWeapon, one that has been
\* unregistered since the pass began is passed over
RunVisit ==
    /\ wpc = "run_loop"
    /\ \E p \in pass.todo :
        IF p \in Members(Regs)
        THEN /\ callSeq < MaxCalls
             /\ callSeq' = callSeq + 1
             /\ pend' = [name |-> HandlerOf(p.reg), call |-> callSeq + 1,
                         age |-> 0, outcome |-> "none"]
             /\ wpc' = "start_lock"
             /\ pass' = [pass EXCEPT !.todo = @ \ {p}, !.count[p] = @ + 1]
        ELSE /\ pass' = [pass EXCEPT !.todo = @ \ {p}]
             /\ UNCHANGED <<callSeq, pend, wpc>>
    /\ UNCHANGED <<periodicVars, actionVars, registryVars, cacheVars, unitState, env,
                   bracketVars, scriptWatcherRunning, stack, execResult,
                   scriptError, interruptRequested, watcherVars>>

\* every member of the snapshot has been dealt with: RunScripts returns
RunEnd ==
    /\ wpc = "run_loop"
    /\ pass.todo = {}
    /\ pass' = NoPass
    /\ wpc' = "idle"
    /\ UNCHANGED <<periodicVars, actionVars, registryVars, cacheVars, unitState, env,
                   bracketVars, scriptWatcherRunning, stack, pend, callSeq,
                   execResult, scriptError, interruptRequested, watcherVars>>

\* a Register / Unregister call from the game loop or from a running handler:
\* r is what the call leaves of the three sets, p the member it was about
PeriodicCall(r, p, registers) ==
    /\ CanCall
    /\ updateNpcs' = r.updateNpcs
    /\ updateNpcsTimer' = r.updateNpcsTimer
    /\ updateWeapons' = r.updateWeapons
    /\ wanted' = [q \in DOMAIN wanted \cup {p} |-> IF q = p THEN registers ELSE wanted[q]]
    /\ pass' = IF ~registers /\ p \in pass.snap
               THEN [pass EXCEPT !.unreg = @ \cup {p}] ELSE pass
    /\ UNCHANGED <<actionVars, registryVars, cacheVars, unitState, env, bracketVars,
                   scriptWatcherRunning, workerVars, scriptError,
                   interruptRequested, watcherVars>>

DoRegisterNpcTimer(npc) ==
    PeriodicCall(RegisterNpcTimer(Regs, npc), Member("updateNpcsTimer", npc), TRUE)
DoRegisterNpcUpdate(npc) ==
    PeriodicCall(RegisterNpcUpdate(Regs, npc), Member("updateNpcs", npc), TRUE)
DoRegisterWeaponUpdate(weapon) ==
    PeriodicCall(RegisterWeaponUpdate(Regs, weapon), Member("updateWeapons", weapon), TRUE)
DoUnregisterWeaponUpdate(weapon) ==
    PeriodicCall(UnregisterWeaponUpdate(Regs, weapon), Member("updateWeapons", weapon), FALSE)
DoUnregisterNpcUpdate(npc) ==
    PeriodicCall(UnregisterNpcUpdate(Regs, npc), Member("updateNpcs", npc), FALSE)
DoUnregisterNpcTimer(npc) ==
    PeriodicCall(UnregisterNpcTimer(Regs, npc), Member("updateNpcsTimer", npc), FALSE)

\* ---------------------------------------------------------- watcher thread
\* loop test fails: the thread ends
WatcherExit ==
    /\ watcherPc = "loop"
    /\ ~scriptWatcherRunning
    /\ watcherPc' = "exited"
    /\ UNCHANGED <<extVars, registryVars, cacheVars, unitState, env, bracketVars,
                   scriptWatcherRunning, workerVars, scriptError,
                   interruptRequested, obs, sleepLeft>>

WatcherLock ==
    /\ watcherPc = "loop"
    /\ scriptWatcherRunning
    /\ lockHolder = "none"
    /\ lockHolder' = "watcher"
    /\ watcherPc' = "read"
    /\ UNCHANGED <<extVars, registryVars, cacheVars, unitState, env, scriptIsRunning,
                   scriptStartAge, startCall, runCall, scriptWatcherRunning,
                   workerVars, scriptError, interruptRequested, obs, sleepLeft>>

\* running and startTime are read together under the lock
WatcherRead ==
    /\ watcherPc = "read"
    /\ obs' = [running |-> scriptIsRunning, age |-> scriptStartAge,
               startCall |-> startCall, runCall |-> runCall]
    /\ lockHolder' = "none"
    /\ watcherPc' = "decide"
    /\ UNCHANGED <<extVars, registryVars, cacheVars, unitState, env, scriptIsRunning,
                   scriptStartAge, startCall, runCall, scriptWatcherRunning,
                   workerVars, scriptError, interruptRequested, sleepLeft>>

\* a call seen running for longer than the timeout is interrupted; the watcher
\* leaves the bracket alone and goes back to sleep
WatcherDecide ==
    /\ watcherPc = "decide"
    /\ interruptRequested' = IF obs.running /\ obs.age > Timeout
                             THEN TRUE ELSE interruptRequested
    /\ obs' = NoObs
    /\ sleepLeft' = PollInterval
    /\ watcherPc' = "sleep"
    /\ UNCHANGED <<extVars, registryVars, cacheVars, unitState, env, bracketVars,
                   scriptWatcherRunning, workerVars, scriptError>>

WatcherWake ==
    /\ watcherPc = "sleep"
    /\ sleepLeft = 0
    /\ watcherPc' = "loop"
    /\ UNCHANGED <<extVars, registryVars, cacheVars, unitState, env, bracketVars,
                   scriptWatcherRunning, workerVars, scriptError,
                   interruptRequested, obs, sleepLeft>>

\* one unit of time passes, but never past the end of the watcher's sleep
Opening == wpc \in {"start_lock", "start_write", "start_store", "lookup"}
Tick ==
    /\ env = "alive"
    /\ watcherPc = "sleep" /\ sleepLeft > 0
    /\ sleepLeft' = sleepLeft - 1
    /\ scriptStartAge' = Inc(scriptStartAge)
    /\ pend' = IF Opening THEN [pend EXCEPT !.age = Inc(@)] ELSE pend
    /\ stack' = [i \in 1..Len(stack) |-> [stack[i] EXCEPT !.age = Inc(@)]]
    /\ UNCHANGED <<extVars, registryVars, cacheVars, unitState, env, scriptIsRunning,
                   startCall, runCall, lockHolder, scriptWatcherRunning, wpc, callSeq,
                   execResult, scriptError, interruptRequested, watcherPc, obs>>

\* ------------------------------------------------------- the specifications
Registry ==
    \/ \E n \in Names, u \in Units : DoSetCallBack(n, u)
    \/ \E n \in Names : DoRemoveCallBack(n)

Cache ==
    \/ \E c \in Sources : CompilesOk(c) /\ CompileCache(c, TRUE)
    \/ \E c \in Sources : ClearCache(c)

Invocation ==
    \/ \E n \in Names : ExecBegin(n)
    \/ StartLock
    \/ StartWrite
    \/ StartStore
    \/ ExecLookup
    \/ HandlerReturn(TRUE)
    \/ ExecStop

Lifecycle ==
    \/ Initialize
    \/ CleanupStop
    \/ CleanupJoin

Watcher ==
    \/ WatcherLock
    \/ WatcherRead
    \/ WatcherDecide
    \/ WatcherWake

\* the worker thread's operations on the registry, the cache and the units,
\* with handlers that return; the watcher thread waits at its loop test until
\* Cleanup stops it
Next ==
    \/ Lifecycle
    \/ RunScripts
    \/ Registry
    \/ Cache
    \/ Invocation
    \/ WatcherExit

Spec == Init /\ [][Next]_vars

\* both threads and the clock, around the bracket: handlers that return, fail
\* or spin, and the watcher polling while they run
NextWatch ==
    \/ Lifecycle
    \/ \E u \in Units : DoSetCallBack("onCreated", u)
    \/ Invocation
    \/ HandlerReturn(FALSE)
    \/ HandlerSpin
    \/ HandlerInterrupted
    \/ Watcher
    \/ WatcherExit
    \/ Tick

SpecWatch == Init /\ [][NextWatch]_vars

\* the periodic registries and the passes of RunScripts over them, with
\* handlers that register and unregister entities while a pass is under way
Periodic ==
    \/ \E e \in Npcs : DoRegisterNpcTimer(e)
    \/ DoRegisterNpcUpdate("npc1")
    \/ \E e \in Weapons : DoRegisterWeaponUpdate(e)
    \/ \E e \in Weapons : DoUnregisterWeaponUpdate(e)
    \/ DoUnregisterNpcUpdate("npc1")
    \/ \E e \in Npcs : DoUnregisterNpcTimer(e)

NextRun ==
    \/ Initialize
    \/ \E n \in Names, u \in FreshUnit : AtTop /\ n \notin DOMAIN callbacks /\ DoSetCallBack(n, u)
    \/ AtTop /\ DoRemoveCallBack("onCreated")
    \/ Periodic
    \/ RunScripts
    \/ RunVisit
    \/ RunEnd
    \/ StartLock
    \/ StartWrite
    \/ StartStore
    \/ ExecLookup
    \/ HandlerReturn(TRUE)
    \/ ExecStop

SpecRun == Init /\ [][NextRun]_vars

\* the game loop compiling sources, installing and removing callbacks,
\* building an Action and running it later, with the flush of RunScripts in
\* between and one call through ExecuteNpc / ExecuteWeapon
NextAct ==
    \/ Initialize
    \/ \E n \in Names, u \in Units : AtTop /\ DoSetCallBack(n, u)
    \/ \E n \in Names : AtTop /\ DoRemoveCallBack(n)
    \/ \E c \in Sources : c \notin DOMAIN cachedScripts /\ CompileCache(c, TRUE)
    \/ RunScripts
    \/ \E n \in Names, k \in ArgCounts : actions = <<>> /\ DoCreateAction(n, k)
    \/ \E i \in DOMAIN actions : RunAction(i)
    \/ \E n \in Names : AtTop /\ callSeq = 0 /\ ExecBegin(n)
    \/ StartLock
    \/ StartWrite
    \/ StartStore
    \/ ExecLookup
    \/ HandlerReturn(TRUE)
    \/ ExecStop

SpecAct == Init /\ [][NextAct]_vars

\* the compile cache: sources that compile and one that does not, compiled
\* with and without caching, released, and installed as callbacks
NextCache ==
    \/ Initialize
    \/ \E c \in Sources, r \in BOOLEAN : CompileCache(c, r)
    \/ \E c \in Sources : ClearCache(c)
    \/ \E u \in Units : AtTop /\ DoSetCallBack("onCreated", u)
    \/ AtTop /\ DoRemoveCallBack("onCreated")
    \/ RunScripts

SpecCache == Init /\ [][NextCache]_vars

\* ------------------------------------------------------------- properties
RegistryStep(n) ==
    \/ DoRemoveCallBack(n)
    \/ \E u \in Units : DoSetCallBack(n, u)
FlushStep == RunScripts \/ CleanupJoin
NewlyDestroyed == {u \in Units : unitState[u] # "destroyed" /\ unitState'[u] = "destroyed"}

\* C1: when the callback of a name is replaced or removed while a call to the
\* unit it held is executing, that unit goes into the pending-deletion set and
\* is not destroyed; no step destroys a unit that is on the call stack; and the
\* pending-deletion set is emptied by a safe-point flush only.
C1_OldUnitOutlivesCall ==
    [][ /\ \A n \in DOMAIN callbacks :
              (RegistryStep(n) /\ callbacks[n] \in StackUnits)
                  => /\ callbacks[n] \in deletedFunctions'
                     /\ unitState'[callbacks[n]] = unitState[callbacks[n]]
        /\ \A u \in StackUnits : unitState'[u] = unitState[u]
        /\ (deletedFunctions # {} /\ deletedFunctions' = {}) => FlushStep ]_vars

\* a handler running for a name whose callback has been replaced under it: its
\* unit waits, alive, in the pending-deletion set
C1_Witness ==
    /\ stack # <<>>
    /\ Top.name \in DOMAIN callbacks
    /\ callbacks[Top.name] # Top.unit
    /\ Top.unit \in deletedFunctions
    /\ unitState[Top.unit] = "alive"

\* C2: a unit of the pending-deletion set is destroyed only by a safe-point
\* flush (RunScripts' or Cleanup's), taken while the bracket is closed and no
\* script call is on the call stack.
C2_FlushOnlyAtSafePoint ==
    [][ \A u \in NewlyDestroyed :
            u \in deletedFunctions \cup deletedFunctions'
                => FlushStep /\ ~scriptIsRunning /\ stack = <<>> ]_vars

\* a flush has destroyed a unit that had been removed, with the engine still up
C2_Witness ==
    /\ env = "alive"
    /\ deletedFunctions = {}
    /\ \E u \in Units : unitState[u] = "destroyed" /\ u \notin Range(cachedScripts)
    /\ callSeq > 0

\* C3: removeCallBack(name) destroys nothing; a registered name loses its entry
\* and its unit joins the pending-deletion set, the other names keep theirs; an
\* unregistered name changes neither the registry nor the pending-deletion set.
C3_RemoveDefers ==
    [][ \A n \in Names : DoRemoveCallBack(n) =>
            /\ unitState' = unitState
            /\ IF n \in DOMAIN callbacks
               THEN /\ deletedFunctions' = deletedFunctions \cup {callbacks[n]}
                    /\ getCallBack(callbacks', n) = NULL
                    /\ \A m \in Names \ {n} :
                           getCallBack(callbacks', m) = getCallBack(callbacks, m)
               ELSE /\ callbacks' = callbacks
                    /\ deletedFunctions' = deletedFunctions ]_vars

\* every callback has been removed: the units wait, alive, for the flush
C3_Witness ==
    /\ callbacks = <<>>
    /\ Cardinality(deletedFunctions) = NumUnits
    /\ \A u \in deletedFunctions : unitState[u] = "alive"

\* C4: setCallBack(name, unit) leaves unit registered under name, passes the
\* unit the name held before into the pending-deletion set, and leaves the
\* other names alone; the registry holds one unit per name.
C4_SetReplaces ==
    [][ \A n \in Names, u \in Units : DoSetCallBack(n, u) =>
            /\ getCallBack(callbacks', n) = u
            /\ n \in DOMAIN callbacks => callbacks[n] \in deletedFunctions'
            /\ deletedFunctions' \subseteq deletedFunctions \cup Range(callbacks)
            /\ \A m \in Names \ {n} :
                   getCallBack(callbacks', m) = getCallBack(callbacks, m) ]_vars

\* both names registered, and a replaced unit waiting in the pending-deletion set
C4_Witness ==
    /\ DOMAIN callbacks = Names
    /\ \E n \in Names, old \in deletedFunctions :
           old # callbacks[n] /\ unitState[old] = "alive"

\* C5: a destroyed unit is held by no callback registry slot and by no compile
\* cache entry, and no invocation of it is in flight.
C5_DestroyedUnitsUnreferenced ==
    \A u \in Destroyed :
        /\ u \notin Range(callbacks)
        /\ u \notin Range(cachedScripts)
        /\ u \notin StackUnits

\* C6: when the watcher sees running == true, the start time it reads with it
\* was written by the call that set running, or by a later one: never by an
\* earlier call.
C6_NoStaleStartTime ==
    (watcherPc = "decide" /\ obs.running) => obs.startCall >= obs.runCall

\* the watcher has read the bracket while a second call was running
C6_Witness ==
    /\ watcherPc = "decide"
    /\ obs.running
    /\ obs.runCall > 1
    /\ obs.startCall = obs.runCall

\* C7, as claimed: with the watcher lock free, the start time is never already
\* the new call's while running is still false.
C7_StartIsOneCriticalSection ==
    ~ ( /\ lockHolder = "none"
        /\ wpc = "start_store"
        /\ startCall = pend.call
        /\ ~scriptIsRunning )

\* C7, amended: the worker holds the watcher lock for the write of the start
\* time only; running = true is stored after the lock is released, and from
\* the release on the start time is the new call's.
C7_StartTimeWrittenBeforeRunning ==
    /\ lockHolder = "worker" => wpc = "start_write"
    /\ wpc = "start_store" => startCall = pend.call
    /\ wpc = "lookup" => (scriptIsRunning /\ runCall = pend.call /\ startCall = pend.call)

\* the start time of a call is written, the lock released, running not yet set
C7_Witness ==
    /\ wpc = "start_store"
    /\ lockHolder = "none"
    /\ startCall = pend.call
    /\ ~scriptIsRunning
    /\ pend.call > 1

\* C8: whenever no script call is in flight on the worker thread, the bracket
\* is closed: running == false.
C8_BracketClosedWhenIdle ==
    (stack = <<>> /\ wpc \in {"idle", "cleanup_join", "done"}) => ~scriptIsRunning

\* ExecuteNpc has returned false after the watcher interrupted the handler
C8_Witness ==
    /\ wpc = "idle"
    /\ stack = <<>>
    /\ execResult = "false"
    /\ scriptError = "timeout"
    /\ ~scriptIsRunning

\* C9: a handler that spins has had its interrupt requested by the time
\* timeout + one polling interval have passed since its bracket opened.
C9_SpinInterruptedInTime ==
    (stack # <<>> /\ wpc = "in_call" /\ Top.spin /\ Top.age > Timeout + PollInterval)
        => interruptRequested

\* C10: once the environment is released the watcher thread has ended.
C10_WatcherJoinedBeforeRelease ==
    env = "destroyed" => (watcherPc = "exited" /\ ~scriptWatcherRunning)

\* Cleanup has returned after calls were made: environment released, thread ended
C10_Witness ==
    /\ env = "destroyed"
    /\ wpc = "done"
    /\ watcherPc = "exited"
    /\ callSeq > 0

\* C11: in a pass of RunScripts, however its handlers unregister entities
\* (themselves included) while it runs, a member of the snapshot that has been
\* dealt with and was not itself unregistered was invoked exactly once, and no
\* member is ever invoked twice
C11_OthersInvokedOnce ==
    \A p \in pass.snap :
        /\ pass.count[p] <= 1
        /\ (p \notin pass.todo /\ p \notin pass.unreg) => pass.count[p] = 1

\* a finished pass in which one member was invoked and unregistered, and another
\* member of the same registry was invoked as well
C11_Witness ==
    /\ wpc = "run_loop" /\ pass.todo = {}
    /\ \E p, q \in pass.snap :
        /\ p # q /\ p.reg = q.reg
        /\ p \in pass.unreg /\ pass.count[p] = 1
        /\ q \notin pass.unreg /\ pass.count[q] = 1

\* C12: an entity whose last call before a pass began was an Unregister is not
\* invoked during that pass
C12_UnregisteredNotInvoked ==
    \A p \in DOMAIN pass.want : ~pass.want[p] => ~Invoked(p)

\* a finished pass that invoked a member of a registry from which another
\* entity had been registered and unregistered before the pass began
C12_Witness ==
    /\ wpc = "run_loop" /\ pass.todo = {}
    /\ \E p \in DOMAIN pass.want, q \in pass.snap :
        /\ ~pass.want[p]
        /\ q.reg = p.reg /\ Invoked(q)
        /\ p \in DOMAIN wanted /\ ~wanted[p]

\* a step of one of the Register / Unregister calls
PeriodicStep ==
    \/ Regs' # Regs
    \/ wanted' # wanted /\ DOMAIN wanted \subseteq DOMAIN wanted'

\* C13: each of the three sets holds exactly the entities whose last call on
\* that set was a Register, however often a call was repeated and whatever was
\* called on the other two sets, and no Register or Unregister changes the
\* callback registry or the pending-deletion set
C13_RegistriesIndependent ==
    /\ [](Members(Regs) = {p \in DOMAIN wanted : wanted[p]})
    /\ [][PeriodicStep => UNCHANGED registryVars]_vars

\* an entity is in two registries and another has been taken out of one of
\* them, while the third registry, the callback registry and the
\* pending-deletion set are not empty
C13_Witness ==
    /\ "npc1" \in updateNpcs /\ "npc1" \in updateNpcsTimer
    /\ updateWeapons # {} /\ callbacks # <<>> /\ deletedFunctions # {}
    /\ "npc2" \notin updateNpcsTimer
    /\ Member("updateNpcsTimer", "npc2") \in DOMAIN wanted

\* an ExecuteNpc / ExecuteWeapon call for a name that has no handler is at
\* one of its steps
UnregisteredCall ==
    \/ Opening /\ pend.name \notin DOMAIN callbacks
    \/ wpc = "stop" /\ pend.outcome = "nohandler"

\* the argument counts CreateAction's assert(Argc > 0) admits
AdmittedArgCounts == {k \in ArgCounts : AssertArgc(k) = {FALSE}}

\* C14: for a name that has no entry, CreateAction, called as its assert
\* requires with at least one argument after the name, returns nullptr and
\* builds no Action, ExecuteNpc / ExecuteWeapon returns false, and every step
\* of either leaves ScriptRunError, the callback registry and the
\* pending-deletion set as they were
C14_UnregisteredIsNoError ==
    [][/\ \A n \in Names, k \in AdmittedArgCounts :
            (n \notin DOMAIN callbacks /\ (DoCreateAction(n, k) \/ ExecBegin(n))) =>
                /\ wpc' # "aborted"
                /\ created' \in {created, [asked |-> n, argc |-> k, action |-> NoAction]}
                /\ actions' = actions
                /\ UNCHANGED <<scriptError, registryVars>>
       /\ UnregisteredCall =>
            /\ UNCHANGED <<scriptError, registryVars>>
            /\ wpc = "stop" => execResult' = "false"]_vars

\* a name without an entry was asked for with an argument and nothing came
\* back, and an Execute without a handler has returned false, with an earlier
\* error still recorded and the registry and the pending-deletion set not empty
C14_Witness ==
    /\ created.asked \in Names \ DOMAIN callbacks
    /\ created.argc > 0
    /\ created.action = NoAction /\ actions = <<>>
    /\ wpc = "idle" /\ callSeq > 0 /\ execResult = "false"
    /\ scriptError = "compile"
    /\ callbacks # <<>> /\ deletedFunctions # {}

\* C15: for a name that has an entry, CreateAction, called as its assert
\* requires with at least one argument after the name, returns a new Action
\* holding the unit registered under the name at that moment and the name,
\* runs nothing, and leaves the bracket, the calls in flight, the callback
\* registry, the pending-deletion set, the compile cache and every unit as
\* they were
C15_CreateActionOnlyBuilds ==
    [][\A n \in Names, k \in AdmittedArgCounts :
        (n \in DOMAIN callbacks /\ DoCreateAction(n, k)) =>
            /\ wpc' # "aborted"
            /\ created' = [asked |-> n, argc |-> k,
                           action |-> [unit |-> callbacks[n], name |-> n]]
            /\ actions' = Append(actions, created'.action)
            /\ UNCHANGED <<bracketVars, stack, execResult, registryVars,
                           cacheVars, unitState>>]_vars

\* an Action was built, with an argument, for one name inside the running
\* handler of another name that holds a different unit, with the cache and the
\* pending-deletion set not empty
C15_Witness ==
    /\ actions = <<created.action>>
    /\ created.argc > 0
    /\ InHandler /\ scriptIsRunning
    /\ Top.name # created.asked /\ Top.unit # created.action.unit
    /\ created.asked \in DOMAIN callbacks
    /\ callbacks[created.asked] = created.action.unit
    /\ cachedScripts # <<>> /\ deletedFunctions # {}

\* C16: a source compiled with caching while it is in the cache comes back as
\* the cached unit, adds one to that unit's reference count and is not handed
\* to the compiler; the first cached compile enters the unit it returns with a
\* count of one; a source that does not compile returns nullptr, reports a
\* compile error and leaves the cache as it was
C16_CachedCompileIsShared ==
    [][\A c \in Sources, r \in BOOLEAN :
        CompileCache(c, r) =>
            LET o == CompileCacheOutcome(c, r)
            IN  /\ (r /\ c \in DOMAIN cachedScripts) =>
                     /\ o.unit = cachedScripts[c] /\ ~o.compiles
                     /\ refCount' = [refCount EXCEPT ![o.unit] = @ + 1]
                     /\ UNCHANGED <<cachedScripts, unitState, scriptError>>
                /\ (r /\ c \notin DOMAIN cachedScripts /\ CompilesOk(c)) =>
                     /\ o.compiles /\ unitState[o.unit] = "free"
                     /\ cachedScripts' = MapPut(cachedScripts, c, o.unit)
                     /\ refCount'[o.unit] = 1
                /\ ~CompilesOk(c) =>
                     /\ o.unit = NULL
                     /\ scriptError' = "compile"
                     /\ UNCHANGED <<cachedScripts, refCount, unitState>>]_vars

\* a source has been compiled twice with caching and the compiler has run
\* once; the source that does not compile has been tried and is not cached
C16_Witness ==
    /\ "good" \in DOMAIN cachedScripts
    /\ refCount[cachedScripts["good"]] = 2
    /\ \A u \in Units : unitState[u] # "free" => u = cachedScripts["good"]
    /\ scriptError = "compile"
    /\ "bad" \notin DOMAIN cachedScripts

\* C17: whenever a bracketed call is in flight and its handler is running,
\* the bracket shows running
C17_RunningWhileCallInFlight ==
    (wpc = "in_call" /\ stack # <<>>) => scriptIsRunning

\* C18: no unit is in the pending-deletion set and the value of a registry
\* entry at the same time
C18_PendingUnitsNotLive ==
    deletedFunctions \cap Range(callbacks) = {}

\* C19: while the engine is up, no Action that its caller still holds refers
\* to a unit that has been destroyed (looked at where the callback registry
\* itself holds no destroyed unit, so that the Action is the only reference
\* in question)
C19_HeldActionsReferToLiveUnits ==
    (env = "alive" /\ Range(callbacks) \cap Destroyed = {}) =>
        \A i \in DOMAIN actions : actions[i].unit \notin Destroyed

\* C20: StopScriptExecution returns the value of running it found and leaves
\* running false; called with running false it returns false and leaves the
\* bracket as it was, and so does a second call that follows at once
C20_StopReportsAndClears ==
    [][ExecStop =>
        LET r == StopScriptExecution(scriptIsRunning)
        IN  /\ r.res = scriptIsRunning
            /\ scriptIsRunning' = FALSE
            /\ ~scriptIsRunning => UNCHANGED bracketVars
            /\ StopScriptExecution(scriptIsRunning') =
                   [res |-> FALSE, running |-> FALSE]]_vars

\* the Stop of a nested call has returned true and cleared the flag, and the
\* outer call, with no Start in between, is at its own Stop
C20_Witness ==
    /\ wpc = "stop" /\ stack # <<>> /\ ~scriptIsRunning
    /\ callSeq = 2 /\ runCall = 2 /\ execResult = "true"

====
